---- MODULE Spec2Model ----
(***************************************************************************)
(* Catalyst Center Agent: the Device API client (ai_tools.py) and the      *)
(* conversational orchestrator (ai_agent.py).                              *)
(*                                                                         *)
(* Three specifications share this module:                                 *)
(*   SpecAuth       one call of get_auth_token against a response body     *)
(*   SpecInventory  one call of get_device_inventory against a server      *)
(*   Spec           the turns of the chat: main / process_user_message     *)
(*                  driving the graph built by build_langgraph             *)
(***************************************************************************)
EXTENDS Integers, Sequences, FiniteSets, TLC

VARIABLES
    \* ---- ai_tools.py, get_auth_token
    _TOKEN,            \* the module-level global _TOKEN (a text)
    auth_response,     \* the response of the POST: a JSON object with one field
    auth_result,       \* what the call did: [kind, value]
    auth_pc,           \* "call" before the call, "done" after it
    \* ---- ai_tools.py, get_device_inventory
    inventory,         \* the server's device records, in server order
    device_list,       \* the local device_list
    offset,            \* the local offset
    requests,          \* the offsets of the GET requests issued, in order
    inv_failed,        \* 0, or the number of the request that failed
    inv_raised,        \* TRUE when the call left by an exception
    inv_pc,            \* "loop" inside while True, "done" after return
    \* ---- ai_agent.py
    session_messages,  \* st.session_state.messages
    messages,          \* the graph's State["messages"] of the running turn
    llm_input,         \* the list last handed to llm_with_tools.invoke
    final_response,    \* the local final_response of process_user_message
    pc,                \* "idle", "chatbot", "tools", "end"
    responses,         \* the model's responses of this turn: the tool names each asked for
    executed,          \* the tool calls run in this turn: [id, name, failed]
    appended,          \* every message ever appended to st.session_state.messages
    turn               \* turns started so far

authVars == <<_TOKEN, auth_response, auth_result, auth_pc>>
invVars  == <<inventory, device_list, offset, requests, inv_failed, inv_raised, inv_pc>>
chatVars == <<session_messages, messages, llm_input, final_response, pc,
              responses, executed, appended, turn>>
vars     == <<authVars, invVars, chatVars>>

(***************************************************************************)
(* Texts are sequences of one-character strings.                           *)
(***************************************************************************)
MaxStrLen == 5

Alphabet == {"e", "r", "o"}

Texts == UNION {[1..k -> Alphabet] : k \in 0..MaxStrLen}

\* Python's `needle in hay` on str
Contains(hay, needle) ==
    \E i \in 0..(Len(hay) - Len(needle)) :
        \A j \in 1..Len(needle) : hay[i + j] = needle[j]

KeyToken   == <<"T", "o", "k", "e", "n">>
KeyError_  == <<"e", "r", "r", "o", "r">>
KeyMessage == <<"m", "e", "s", "s", "a", "g", "e">>

\* a JSON object with one string field, and the body text that carries it
JsonObject(k, v) == [key |-> k, value |-> v]

ResponseText(body) ==
    <<"{", "\"">> \o body.key \o <<"\"", ":", " ", "\"">> \o body.value \o <<"\"", "}">>

\* response.json()[k]: the field, or KeyError
HasKey(body, k) == body.key = k

\* "ERROR: Failed to retrieve Access Token! REASON: "
ReasonPrefix ==
    <<"E","R","R","O","R",":"," ","F","a","i","l","e","d"," ","t","o"," ",
      "r","e","t","r","i","e","v","e"," ","A","c","c","e","s","s"," ",
      "T","o","k","e","n","!"," ","R","E","A","S","O","N",":"," ">>

\* `"error" in response.text`, line 39
ErrorTestSkipped(body) == FALSE
ErrorTest(body) == Contains(ResponseText(body), KeyError_)

(***************************************************************************)
(* get_auth_token, lines 35-43: the outcome and the new value of _TOKEN.   *)
(***************************************************************************)
GetAuthToken(body, token) ==
    IF ErrorTest(body)
    THEN IF HasKey(body, KeyError_)
         THEN [kind |-> "ValueError", value |-> ReasonPrefix \o body.value, token |-> token]
         ELSE [kind |-> "KeyError", value |-> KeyError_, token |-> token]
    ELSE IF HasKey(body, KeyToken)
         THEN [kind |-> "return", value |-> body.value, token |-> body.value]
         ELSE [kind |-> "KeyError", value |-> KeyToken, token |-> token]

NoResult == [kind |-> "none", value |-> <<>>]

\* the bodies the token endpoint may answer with
AuthBodies ==
    {JsonObject(k, v) : k \in {KeyToken, KeyError_, KeyMessage}, v \in Texts}

\* _TOKEN is "" at import, or the token of an earlier successful call
PriorTokens == {<<>>, <<"o", "o">>}

IdleInventory ==
    /\ inventory = <<>> /\ device_list = <<>> /\ offset = 0 /\ requests = <<>>
    /\ inv_failed = 0 /\ inv_raised = FALSE /\ inv_pc = "idle"

IdleChat ==
    /\ session_messages = <<>> /\ messages = <<>> /\ llm_input = <<>>
    /\ final_response = "None" /\ pc = "off" /\ responses = <<>>
    /\ executed = <<>> /\ appended = <<>> /\ turn = 0

InitAuth ==
    /\ _TOKEN \in PriorTokens
    /\ auth_response \in AuthBodies
    /\ auth_result = NoResult
    /\ auth_pc = "call"
    /\ IdleInventory
    /\ IdleChat

AuthCall ==
    /\ auth_pc = "call"
    /\ LET r == GetAuthToken(auth_response, _TOKEN)
       IN  /\ _TOKEN' = r.token
           /\ auth_result' = [kind |-> r.kind, value |-> r.value]
    /\ auth_pc' = "done"
    /\ UNCHANGED <<auth_response, invVars, chatVars>>

NextAuth == AuthCall

SpecAuth == InitAuth /\ [][NextAuth]_vars

\* C7: against a body whose JSON object has an "error" field, get_auth_token raises
\* ValueError with a message that contains the field's text, and _TOKEN keeps its value.
AuthErrorRaisesWithReason ==
    [][(auth_pc = "call" /\ HasKey(auth_response, KeyError_)) =>
          /\ auth_result'.kind = "ValueError"
          /\ Contains(auth_result'.value, auth_response.value)
          /\ _TOKEN' = _TOKEN]_vars

AuthErrorWitness ==
    /\ auth_pc = "done"
    /\ HasKey(auth_response, KeyError_)
    /\ Len(auth_response.value) > 0
    /\ auth_result.kind = "ValueError"
    /\ _TOKEN = <<"o", "o">>

\* C8: against a body whose JSON object has a "Token" field and no "error" field,
\* get_auth_token returns the field's text and leaves it in _TOKEN, whatever the text is.
AuthTokenAlwaysReturned ==
    (auth_pc = "done" /\ HasKey(auth_response, KeyToken)) =>
        /\ auth_result = [kind |-> "return", value |-> auth_response.value]
        /\ _TOKEN = auth_response.value

(***************************************************************************)
(* get_device_inventory, lines 62-77.                                      *)
(***************************************************************************)
MaxFullPages == 2

Limit == 500

StartOffset == 1

Min(a, b) == IF a < b THEN a ELSE b

\* the server's devices: record i is the i-th device in server order
Devices(n) == [i \in 1..n |-> i]

Inventories == {Devices(n) : n \in 0..(MaxFullPages * Limit + Limit - 1)}

\* the "response" field of GET network-device?offset=off&limit=lim
ServerPage(inv, off, lim) ==
    IF off > Len(inv) THEN <<>> ELSE SubSeq(inv, off, Min(off + lim - 1, Len(inv)))

\* device_list.extend(...), line 71
ExtendFront(list, page) == page \o list
Extend(list, page) == list \o page

\* offset += limit, line 72
NextOffsetSkips(off) == off + Limit + 1
NextOffset(off) == off + Limit

\* except Exception as e: print(e), lines 75-76, then line 77
OnExceptionDrops(list) == [device_list |-> <<>>, raised |-> FALSE]
OnException(list) == [device_list |-> list, raised |-> FALSE]

InitInventory ==
    /\ inventory \in Inventories
    /\ device_list = <<>>
    /\ offset = StartOffset
    /\ requests = <<>>
    /\ inv_failed = 0
    /\ inv_raised = FALSE
    /\ inv_pc = "loop"
    /\ _TOKEN = <<>> /\ auth_response = JsonObject(KeyToken, <<>>)
    /\ auth_result = NoResult /\ auth_pc = "idle"
    /\ IdleChat

\* one pass of while True whose request is answered (lines 67-74)
InvRequest ==
    /\ inv_pc = "loop"
    /\ requests' = Append(requests, offset)
    /\ LET page == ServerPage(inventory, offset, Limit)
       IN  IF page # <<>>
           THEN /\ device_list' = Extend(device_list, page)
                /\ offset' = NextOffset(offset)
                /\ inv_pc' = "loop"
           ELSE /\ inv_pc' = "done"
                /\ UNCHANGED <<device_list, offset>>
    /\ UNCHANGED <<inventory, inv_failed, inv_raised, authVars, chatVars>>

\* one pass of while True whose request, or the decoding of its answer, raises
InvRequestFails ==
    /\ inv_pc = "loop"
    /\ requests' = Append(requests, offset)
    /\ inv_failed' = Len(requests) + 1
    /\ LET h == OnException(device_list)
       IN  /\ device_list' = h.device_list
           /\ inv_raised' = h.raised
    /\ inv_pc' = "done"
    /\ UNCHANGED <<inventory, offset, authVars, chatVars>>

NextInventory == InvRequest \/ InvRequestFails

SpecInventory == InitInventory /\ [][NextInventory]_vars

FullPages(inv) == Len(inv) \div Limit

NonEmptyPages(inv) == (Len(inv) + Limit - 1) \div Limit

\* C1: with no failed request, the call returns the server's pages concatenated in
\* server order, which is the server's whole device sequence.
InventoryIsConcatenation ==
    (inv_pc = "done" /\ inv_failed = 0) => (device_list = inventory /\ ~inv_raised)

InventoryWitness ==
    /\ inv_pc = "done" /\ inv_failed = 0
    /\ Len(inventory) > 2 * Limit
    /\ Len(inventory) % Limit # 0
    /\ device_list = inventory

\* C2 as stated: the last request's offset is 1 + 500 * (number of full pages).
LastOffsetAfterFullPages ==
    (inv_pc = "done" /\ inv_failed = 0) =>
        requests[Len(requests)] = 1 + Limit * FullPages(inventory)

\* C2 as amended: the last request's offset is 1 + 500 * (number of non-empty pages),
\* and an inventory of zero devices takes exactly one request, at offset 1.
LastOffsetAfterNonEmptyPages ==
    (inv_pc = "done" /\ inv_failed = 0) =>
        /\ requests[Len(requests)] = 1 + Limit * NonEmptyPages(inventory)
        /\ Len(requests) = NonEmptyPages(inventory) + 1
        /\ (Len(inventory) % Limit = 0 =>
                requests[Len(requests)] = 1 + Limit * FullPages(inventory))
        /\ (inventory = <<>> => requests = <<1>>)

LastOffsetWitness ==
    /\ inv_pc = "done" /\ inv_failed = 0
    /\ Len(inventory) = Limit + 3
    /\ requests = <<1, 1 + Limit, 1 + 2 * Limit>>

\* C3: when request k fails, the call raises nothing, issues no request after the
\* k-th, and returns the records of pages 1..k-1 in order.
PartialResultOnFailure ==
    (inv_pc = "done" /\ inv_failed > 0) =>
        /\ ~inv_raised
        /\ Len(requests) = inv_failed
        /\ device_list = SubSeq(inventory, 1, Min(Limit * (inv_failed - 1), Len(inventory)))

PartialResultWitness ==
    /\ inv_pc = "done" /\ inv_failed = 2
    /\ Len(inventory) > 2 * Limit
    /\ Len(device_list) = Limit

(***************************************************************************)
(* ai_agent.py: the graph of build_langgraph and the turns main drives.    *)
(***************************************************************************)
MaxTurns == 2

MaxRounds == 2

\* setup_langgraph_tools, line 36
Tools == {"get_auth_token", "get_device_inventory", "get_device_config"}

\* the tool calls one model response may ask for
ToolCallSeqs == {<<t>> : t \in Tools} \cup {<<t, u>> : t, u \in Tools}

\* the text of a final answer (the provider may return an empty one)
AnswerTexts == {"", "answer"}

UserTexts == {"question"}

HumanMessage(text, id) ==
    [type |-> "human", content |-> text, tool_calls |-> <<>>,
     tool_call_id |-> 0, status |-> "", id |-> id]

AIMessage(text, calls, id) ==
    [type |-> "ai", content |-> text, tool_calls |-> calls,
     tool_call_id |-> 0, status |-> "", id |-> id]

ToolMessage(text, call_id, status, id) ==
    [type |-> "tool", content |-> text, tool_calls |-> <<>>,
     tool_call_id |-> call_id, status |-> status, id |-> id]

IsPrefix(s, t) == Len(s) <= Len(t) /\ SubSeq(t, 1, Len(s)) = s

Last(s) == s[Len(s)]

\* the reducer of State.messages (line 30): a message whose id is already in the
\* list replaces that entry, any other message is appended
add_messages_keeps_right(left, right) == right
RECURSIVE add_messages(_, _)
add_messages(left, right) ==
    IF right = <<>> THEN left
    ELSE LET m == Head(right)
             hit == {i \in 1..Len(left) : left[i].id = m.id}
         IN  IF hit = {}
             THEN add_messages(Append(left, m), Tail(right))
             ELSE add_messages([i \in 1..Len(left) |-> IF i \in hit THEN m ELSE left[i]],
                               Tail(right))

\* the dicts of st.session_state.messages as the graph's input: each becomes a
\* message object with a fresh id
Coerce(dicts) ==
    [i \in 1..Len(dicts) |->
        IF dicts[i].role = "user"
        THEN HumanMessage(dicts[i].content, i)
        ELSE AIMessage(dicts[i].content, <<>>, i)]

\* ids not yet in use in the running graph state
FreshId(msgs, k) == 100 * (Len(msgs) + 1) + k

\* list.append on st.session_state.messages, lines 80 and 96
AppendMessageResets(list, msg) == <<msg>>
AppendMessage(list, msg) == Append(list, msg)

\* tools_condition, line 58: to "tools" when the last message is an AI message
\* with tool calls, to END otherwise
tools_condition_always_end(msgs) == "end"
tools_condition_always_tools(msgs) == "tools"
tools_condition(msgs) ==
    IF msgs # <<>> /\ Last(msgs).type = "ai" /\ Last(msgs).tool_calls # <<>>
    THEN "tools" ELSE "end"

\* graph_builder.add_edge("tools", "chatbot"), line 59
ToolsEdgeToEnd == "end"
ToolsEdge == "chatbot"

\* what running one tool call can do: the tool's outcome and its effect on _TOKEN
ToolAuthBodies == {JsonObject(KeyToken, <<"o", "o">>), JsonObject(KeyError_, <<"o", "o">>)}

ToolOutcomes(name, token) ==
    CASE name = "get_auth_token" ->
             {GetAuthToken(b, token) : b \in ToolAuthBodies}
      [] name = "get_device_inventory" ->
             \* lines 65-77: every failure is caught, a list is returned
             {[kind |-> "return", value |-> <<>>, token |-> token]}
      [] name = "get_device_config" ->
             \* line 100: the field, or KeyError when it is missing
             {[kind |-> "return", value |-> <<>>, token |-> token],
              [kind |-> "KeyError", value |-> <<>>, token |-> token]}

\* ToolNode's handling of an exception a tool raises (its default): the exception
\* becomes the content of a tool message with status "error"
HandleToolErrors(call, outcome, id) ==
    [handled |-> TRUE, message |-> ToolMessage("Error: " \o outcome.kind, call.id, "error", id)]

\* the step limit of the runtime that runs the graph for graph.stream (line 81):
\* the config of line 117 sets none, and the design states no iteration cap
StepLimitReached(rs) == FALSE

\* graph.stream, line 81: the node the edges name runs next, unless the runtime
\* stops the run; its exception then leaves process_user_message
NextNode(target, rs) ==
    IF target # "end" /\ StepLimitReached(rs) THEN "raised" ELSE target

\* ToolNode, line 56: one tool message per tool call of the last AI message,
\* in the order of the calls
RunToolCall(call, outcome, id) ==
    IF outcome.kind = "return"
    THEN [handled |-> TRUE, message |-> ToolMessage("result", call.id, "success", id)]
    ELSE HandleToolErrors(call, outcome, id)

InitChat ==
    /\ session_messages = <<>>
    /\ appended = <<>>
    /\ messages = <<>>
    /\ llm_input = <<>>
    /\ final_response = "None"
    /\ pc = "idle"
    /\ responses = <<>>
    /\ executed = <<>>
    /\ turn = 0
    /\ _TOKEN = <<>> /\ auth_response = JsonObject(KeyToken, <<>>)
    /\ auth_result = NoResult /\ auth_pc = "idle"
    /\ IdleInventory

\* main with Send pressed (lines 113-121) up to the first event of graph.stream
\* (lines 79-86): the graph and its MemorySaver are new, its input is the whole
\* session list, and the first value streamed is that input
StartTurn ==
    /\ pc = "idle"
    /\ turn < MaxTurns
    /\ \E user_input \in UserTexts :
        LET msg == [role |-> "user", content |-> user_input]
        IN  /\ session_messages' = AppendMessage(session_messages, msg)
            /\ appended' = Append(appended, msg)
            /\ messages' = add_messages(<<>>, Coerce(session_messages'))
            /\ final_response' = Last(messages').content
    /\ llm_input' = <<>>
    /\ responses' = <<>>
    /\ executed' = <<>>
    /\ turn' = turn + 1
    /\ pc' = "chatbot"
    /\ UNCHANGED <<authVars, invVars>>

ToolRounds(rs) == Cardinality({i \in 1..Len(rs) : rs[i] # <<>>})

\* the node chatbot (lines 52-53), its conditional edge (line 58) and the event
\* the stream yields after it (lines 83-91)
Chatbot ==
    /\ pc = "chatbot"
    /\ \E names \in ToolCallSeqs \cup {<<>>} : \E text \in AnswerTexts :
        /\ names # <<>> => (ToolRounds(responses) < MaxRounds /\ text = "")
        /\ LET calls == [i \in 1..Len(names) |->
                            [id |-> FreshId(messages, i), name |-> names[i]]]
               ai == AIMessage(text, calls, FreshId(messages, 0))
           IN  /\ llm_input' = messages
               /\ messages' = add_messages(messages, <<ai>>)
               /\ final_response' = ai.content
               /\ responses' = Append(responses, names)
               /\ pc' = NextNode(tools_condition(messages'), responses')
    /\ UNCHANGED <<session_messages, appended, executed, turn, authVars, invVars>>

\* the node tools (lines 56-57), its edge back to chatbot (line 59) and the event
\* the stream yields after it
ToolsNode ==
    /\ pc = "tools"
    /\ LET calls == Last(messages).tool_calls
       IN  \E outs \in [1..Len(calls) -> UNION {ToolOutcomes(t, _TOKEN) : t \in Tools}] :
            /\ \A i \in 1..Len(calls) : outs[i] \in ToolOutcomes(calls[i].name, _TOKEN)
            /\ LET ran == [i \in 1..Len(calls) |->
                              RunToolCall(calls[i], outs[i], FreshId(messages, i))]
                   new == [i \in 1..Len(calls) |-> ran[i].message]
               IN  /\ executed' = executed \o
                          [i \in 1..Len(calls) |->
                              [id |-> calls[i].id, name |-> calls[i].name,
                               failed |-> outs[i].kind # "return"]]
                   /\ LET set == {i \in 1..Len(calls) :
                                      calls[i].name = "get_auth_token" /\ outs[i].kind = "return"}
                      IN  IF set = {} THEN _TOKEN' = _TOKEN
                          ELSE \E i \in set : _TOKEN' = outs[i].token
                   /\ IF \A i \in 1..Len(calls) : ran[i].handled
                      THEN /\ messages' = add_messages(messages, new)
                           /\ final_response' =
                                  IF new = <<>> THEN final_response ELSE Last(new).content
                           /\ pc' = NextNode(ToolsEdge, responses)
                      ELSE \* the exception leaves graph.stream and process_user_message
                           /\ pc' = "raised"
                           /\ UNCHANGED <<messages, final_response>>
    /\ UNCHANGED <<session_messages, appended, llm_input, responses, turn,
                   auth_response, auth_result, auth_pc, invVars>>

\* the end of the stream: lines 95-96, then main returns and the graph is dropped
EndTurn ==
    /\ pc = "end"
    /\ IF final_response # "None" /\ final_response # ""
       THEN LET msg == [role |-> "assistant", content |-> final_response]
            IN  /\ session_messages' = AppendMessage(session_messages, msg)
                /\ appended' = Append(appended, msg)
       ELSE UNCHANGED <<session_messages, appended>>
    /\ messages' = <<>>
    /\ llm_input' = <<>>
    /\ responses' = <<>>
    /\ executed' = <<>>
    /\ final_response' = "None"
    /\ pc' = "idle"
    /\ UNCHANGED <<turn, authVars, invVars>>

Next == StartTurn \/ Chatbot \/ ToolsNode \/ EndTurn

Init == InitChat

Spec == Init /\ [][Next]_vars

TurnMessages == SubSeq(messages, Len(Coerce(session_messages)) + 1, Len(messages))

ToolMessagesOf(msgs) == {i \in 1..Len(msgs) : msgs[i].type = "tool"}

\* a tool message at position i answers a tool call of an AI message before it
AnswersEarlierCall(msgs, i) ==
    \E j \in 1..(i - 1) :
        /\ msgs[j].type = "ai"
        /\ \E k \in 1..Len(msgs[j].tool_calls) :
               msgs[j].tool_calls[k].id = msgs[i].tool_call_id

\* C4: every tool message of the graph state answers a tool call of an earlier AI
\* message; and a turn whose model asks for get_device_inventory once and then
\* answers ends at the second model invocation, with one tool call run and one tool
\* message, which carries that call's id and stands right after the call.
OneToolCallOneResult ==
    /\ \A i \in ToolMessagesOf(messages) : AnswersEarlierCall(messages, i)
    /\ (responses = << <<"get_device_inventory">>, <<>> >>) =>
          /\ pc = "end"
          /\ Len(executed) = 1
          /\ Len(TurnMessages) = 3
          /\ TurnMessages[1].type = "ai" /\ Len(TurnMessages[1].tool_calls) = 1
          /\ TurnMessages[1].tool_calls[1].name = "get_device_inventory"
          /\ TurnMessages[2].type = "tool"
          /\ TurnMessages[2].tool_call_id = TurnMessages[1].tool_calls[1].id
          /\ executed[1].id = TurnMessages[2].tool_call_id
          /\ TurnMessages[3].type = "ai" /\ TurnMessages[3].tool_calls = <<>>
          /\ Cardinality(ToolMessagesOf(TurnMessages)) = 1

OneToolCallWitness ==
    /\ pc = "end"
    /\ responses = << <<"get_device_inventory">>, <<>> >>
    /\ Cardinality(ToolMessagesOf(messages)) = 1
    /\ Len(executed) = 1

\* C5: from a graph state that holds only the user's message, a model response
\* without tool calls takes the graph from chatbot to END in that one step, runs no
\* tool and adds exactly one AI message; the session list then gets that answer as
\* its one assistant entry.
DirectAnswerOneStep ==
    [][/\ (pc = "chatbot" /\ Len(messages) = 1 /\ responses' = << <<>> >>) =>
            /\ pc' = "end"
            /\ executed' = <<>>
            /\ Len(messages') = 2
            /\ messages'[1] = messages[1] /\ messages[1].type = "human"
            /\ messages'[2].type = "ai" /\ messages'[2].tool_calls = <<>>
            /\ final_response' = messages'[2].content
       /\ (pc = "end" /\ Len(session_messages) = 1 /\ responses = << <<>> >>
             /\ final_response # "") =>
            /\ pc' = "idle"
            /\ session_messages' =
                   Append(session_messages, [role |-> "assistant", content |-> final_response])
      ]_vars

DirectAnswerWitness ==
    /\ pc = "end" /\ turn = 1
    /\ responses = << <<>> >>
    /\ Len(session_messages) = 1 /\ session_messages[1].role = "user"
    /\ Len(messages) = 2 /\ messages[2].type = "ai"
    /\ final_response = "answer"

\* C6: a tool call that raises leaves a tool message with status "error" for its id
\* in the graph state, the turn does not end by the exception, the graph goes back
\* to the model, and the model's next invocation is handed that message.
ToolFailureGoesToModel ==
    /\ pc # "raised"
    /\ \A i \in 1..Len(executed) : executed[i].failed =>
          /\ \E j \in 1..Len(messages) :
                 /\ messages[j].type = "tool" /\ messages[j].status = "error"
                 /\ messages[j].tool_call_id = executed[i].id
                 /\ (pc \in {"tools", "end"} =>
                        (j <= Len(llm_input) /\ llm_input[j] = messages[j]))
          /\ (i = Len(executed) => pc \in {"chatbot", "tools", "end"})
    /\ (executed # <<>> /\ Len(responses) = ToolRounds(responses)) => pc \in {"chatbot", "tools"}

ToolFailureWitness ==
    /\ pc = "end"
    /\ \E i \in 1..Len(executed) : executed[i].failed /\ executed[i].name = "get_auth_token"
    /\ \E i \in 1..Len(executed) : executed[i].failed /\ executed[i].name = "get_device_config"
    /\ \E j \in 1..Len(llm_input) : llm_input[j].status = "error"

\* C9: st.session_state.messages only grows at its end: each of its states is a
\* prefix of the next, it always equals the sequence of messages appended to it,
\* and within a turn the graph's message list only grows at its end too.
TranscriptAppendOnly ==
    [][/\ IsPrefix(session_messages, session_messages')
       /\ Len(session_messages') <= Len(session_messages) + 1
       /\ session_messages' = appended'
       /\ (pc \in {"chatbot", "tools"} => IsPrefix(messages, messages'))
      ]_vars

TranscriptWitness ==
    /\ turn = 2 /\ pc = "idle"
    /\ Len(session_messages) = 4
    /\ session_messages = appended
    /\ session_messages[3].role = "user"

\* C10: a turn is at END exactly when the model's last response asks for no tool:
\* every response before it asked for one, so after n tool-calling responses the
\* model has been invoked n + 1 times; no response without tool calls exists while
\* the turn is still running.
TurnEndsAtFirstPlainResponse ==
    /\ pc # "raised"
    /\ pc = "end" =>
          /\ Last(responses) = <<>>
          /\ Len(responses) = ToolRounds(responses) + 1
    /\ pc \in {"chatbot", "tools"} => Len(responses) = ToolRounds(responses)
    /\ pc = "tools" => (responses # <<>> /\ Last(responses) # <<>>)
    /\ pc = "chatbot" => Len(executed) >= Len(responses)

TurnEndsWitness ==
    /\ pc = "end"
    /\ ToolRounds(responses) = MaxRounds
    /\ Len(responses) = MaxRounds + 1

====
